---------------------------- MODULE Spec2Model ----------------------------
(***************************************************************************)
(* A model of the match engine of simple-magic (src/src/main.rs):          *)
(* PlayerState, GameState::play and the strategy decision points.          *)
(*                                                                         *)
(* Vec indices are 0-based as in the source; a Vec is a TLA+ sequence and  *)
(* At(v, i) reads v[i].  A HashMap<usize, Vec<usize>> is a function whose  *)
(* domain is the key set.  A panic (failed assert!/expect/panic!) unwinds  *)
(* the process and drops the GameState: the model moves to pc = "panic",   *)
(* records the message and the offending decision, and leaves the match    *)
(* data as it was when the step began.  A message starts with the line of  *)
(* main.rs that raises it.                                                 *)
(*                                                                         *)
(* The source fixes a deck of 60 cards, a hand of 7 and 20 life.  The      *)
(* model keeps the same code with DeckSize, HandSize and StartLife scaled  *)
(* down so that whole matches can be enumerated.                           *)
(***************************************************************************)
EXTENDS Integers, Sequences, FiniteSets, TLC

\* ------------------------------------------------------------------ bounds
\* main.rs:274 asserts 60; scaled.
DeckSize == 4
\* the literal 7 of do_muligans, handle_discard and the discard step; scaled.
HandSize == 3
\* main.rs:281 sets 20; scaled.
StartLife == 2
\* largest creature index a strategy names (indices are 0..MaxIdx); a strategy
\* casts no creature beyond MaxIdx + 1 on its battlefield.
MaxIdx == 1
\* longest attack declaration, list of blocking pairs and list of cast indices
\* a strategy returns.
MaxDecl == MaxIdx + 1
MaxPairs == MaxIdx + 1
MaxCast == MaxIdx + 1
MaxCreatures == MaxIdx + 1
\* cards left in the library when muligan_choice answers, in the specification
\* of the bottoming alone (60 - 7 in the source).
LibrarySize == 2

VARIABLES
    player_states,        \* GameState.player_states: [PlayerState; 2]
    num_turn,             \* GameState.num_turn
    current_player_index, \* GameState.current_player_index
    pc,                   \* position in GameState::play
    mul_index,            \* the i of the do_muligans loop of play (main.rs:505)
    num_muls,             \* do_muligans' num_muls
    perform_muligan,      \* last value returned by muligan_choice
    attackers,            \* play's attackers
    blocking_pairs,       \* play's blocking_pairs
    blocking_arrangement, \* play's blocking_arrangement
    ordered_blockers,     \* play's ordered_blockers, as order_blockers returned it
    all_blockers,         \* play's all_blockers
    dead_attackers,       \* play's dead_attackers
    dead_blockers,        \* play's dead_blockers
    pre_combat,           \* history: player_states as the damage loop found them
    main_phase_plays,     \* last value returned by main_phase
    discard_indices,      \* last value returned by discard
    winner,               \* the Winner play returns
    panic_msg,            \* the message of the panic that ended the match
    discarded,            \* history: cards each player has discarded so far
    died                  \* history: creatures of each player that died so far

\* The locals of one iteration of play's loop that belong to combat.
combat == <<attackers, blocking_pairs, blocking_arrangement, ordered_blockers,
            all_blockers, dead_attackers, dead_blockers, pre_combat>>

vars == <<player_states, num_turn, current_player_index, pc, mul_index, num_muls,
          perform_muligan, combat, main_phase_plays, discard_indices, winner,
          panic_msg, discarded, died>>

\* ------------------------------------------------------------ sequences
At(v, i) == v[i + 1]

Min(a, b) == IF a < b THEN a ELSE b

\* The indices a strategy names for a Vec of length n: 0..n-1, and n for an
\* index out of range, up to MaxIdx.
IdxOf(n) == 0..Min(n, MaxIdx)

Contains(v, x) == \E k \in 1..Len(v) : v[k] = x

Range(v) == {v[k] : k \in 1..Len(v)}

SeqsUpTo(S, n) == UNION {[1..k -> S] : k \in 0..n}

RECURSIVE SumSeq(_)
SumSeq(v) == IF v = <<>> THEN 0 ELSE Head(v) + SumSeq(Tail(v))

\* Vec::retain with the running index of handle_main_phase_plays, handle_discard
\* and die: keep v[i] iff i is not named.
RetainNotNamed(v, named) ==
    LET keep(k) == ~Contains(named, k - 1)
        F[k \in 0..Len(v)] ==
            IF k = 0 THEN <<>>
            ELSE IF keep(k) THEN Append(F[k - 1], v[k]) ELSE F[k - 1]
    IN F[Len(v)]

\* ---------------------------------------------------------------- cards
Land == [kind |-> "Land", cmc |-> 0, pow |-> 0, tou |-> 0]

allowed_cpt ==
    { <<0, 1, 1>>, <<0, 0, 3>>, <<1, 2, 2>>, <<1, 0, 4>>, <<2, 3, 3>>, <<2, 1, 5>>,
      <<2, 0, 6>>, <<3, 5, 4>>, <<3, 4, 5>>, <<3, 0, 8>>, <<4, 6, 6>>, <<4, 2, 10>>,
      <<4, 0, 13>>, <<5, 10, 10>>, <<9, 11, 9>>, <<9, 7, 11>>, <<10, 16, 16>> }

CreatureCard(c, p, t) == [kind |-> "Creature", cmc |-> c, pow |-> p, tou |-> t]

Creature_new(creature_card) ==
    [cmc |-> creature_card.cmc, pow |-> creature_card.pow,
     tou |-> creature_card.tou, tapped |-> FALSE]

\* The decks the two strategies build.  Player 0: a land, an Icehide Golem
\* (1,2,2), a Memnite (0,1,1), a land, ... up to DeckSize cards.  Player 1:
\* DeckSize Memnites, the deck of LandsSuck and MemnitesDontBlock.
DeckPattern == <<Land, CreatureCard(1, 2, 2), CreatureCard(0, 1, 1), Land>>

make_deck(i) ==
    IF i = 0
    THEN [k \in 1..DeckSize |-> DeckPattern[((k - 1) % Len(DeckPattern)) + 1]]
    ELSE [k \in 1..DeckSize |-> CreatureCard(0, 1, 1)]

PlayerState_new(i) ==
    [deck |-> make_deck(i), hand |-> <<>>, num_lands |-> 0, creatures |-> <<>>,
     life |-> StartLife]

\* ----------------------------------------------------------- PlayerState
\* draw: pops the last card of the deck onto the end of the hand.
draw(ps) ==
    IF ps.deck = <<>>
    THEN [result |-> "Empty", ps |-> ps]
    ELSE [result |-> "Nonempty",
          ps |-> [ps EXCEPT !.deck = SubSeq(ps.deck, 1, Len(ps.deck) - 1),
                            !.hand = Append(ps.hand, ps.deck[Len(ps.deck)])]]

\* sort_hand that leaves the hand in the order it has.
sort_hand_mut(ps) == ps

\* sort_hand: stable sort, lands last.
sort_hand(ps) ==
    [ps EXCEPT !.hand = SelectSeq(ps.hand, LAMBDA c : c # Land)
                        \o SelectSeq(ps.hand, LAMBDA c : c = Land)]

\* untap that leaves the creatures as they are.
untap_mut(ps) == ps

untap(ps) ==
    [ps EXCEPT !.creatures = [k \in 1..Len(ps.creatures) |->
                                 [ps.creatures[k] EXCEPT !.tapped = FALSE]]]

\* die: retain by running index, then the "Correct number of creatures die" assert.
die(ps, dead) ==
    LET kept == RetainNotNamed(ps.creatures, dead)
    IN [ok |-> Len(ps.creatures) = Len(kept) + Len(dead),
        ps |-> [ps EXCEPT !.creatures = kept]]

Other(i) == 1 - i

Cur == player_states[current_player_index]
Oth == player_states[Other(current_player_index)]

\* -------------------------------------------------------------- mulligans
\* Vec::shuffle: any permutation of the deck.
Shuffles(deck) ==
    {[k \in 1..Len(deck) |-> deck[p[k]]] : p \in Permutations(1..Len(deck))}

\* The values a strategy may return from muligan_choice.
MuliganChoices ==
    {[muligan |-> TRUE, remove |-> <<>>]}
    \cup {[muligan |-> FALSE, remove |-> r] : r \in SeqsUpTo(0..HandSize, HandSize)}

RECURSIVE DrawN(_, _)
DrawN(ps, n) ==
    IF n = 0 THEN [result |-> "Nonempty", ps |-> ps]
    ELSE LET d == draw(ps)
         IN IF d.result = "Empty" THEN d ELSE DrawN(d.ps, n - 1)

\* Bottom without hand.remove(i): the named card is copied to the deck.
RECURSIVE Bottom_mut(_, _, _)
Bottom_mut(ps, remove, i) ==
    IF i < 0 THEN ps
    ELSE IF Contains(remove, i)
         THEN Bottom_mut([ps EXCEPT !.deck = <<At(ps.hand, i)>> \o ps.deck],
                         remove, i - 1)
         ELSE Bottom_mut(ps, remove, i - 1)

\* Bottom with deck.push(card) for deck.insert(0, card).
RECURSIVE Bottom_top(_, _, _)
Bottom_top(ps, remove, i) ==
    IF i < 0 THEN ps
    ELSE IF Contains(remove, i)
         THEN Bottom_top([ps EXCEPT !.hand = SubSeq(ps.hand, 1, i) \o
                                             SubSeq(ps.hand, i + 2, Len(ps.hand)),
                                    !.deck = Append(ps.deck, At(ps.hand, i))],
                         remove, i - 1)
         ELSE Bottom_top(ps, remove, i - 1)

\* main.rs:299-304: for i in (0..7).rev(), a named card leaves the hand and is
\* inserted at index 0 of the deck.
RECURSIVE Bottom(_, _, _)
Bottom(ps, remove, i) ==
    IF i < 0 THEN ps
    ELSE IF Contains(remove, i)
         THEN Bottom([ps EXCEPT !.hand = SubSeq(ps.hand, 1, i) \o
                                         SubSeq(ps.hand, i + 2, Len(ps.hand)),
                                !.deck = <<At(ps.hand, i)>> \o ps.deck],
                     remove, i - 1)
         ELSE Bottom(ps, remove, i - 1)

\* AfterMuligans that never leaves the loop of do_muligans.
AfterMuligans_mut ==
    /\ mul_index' = mul_index
    /\ num_muls' = 0
    /\ pc' = "muligan"

\* main.rs:506: the is_first argument of the do_muligans call in progress.
is_first == mul_index = 0

\* What follows the end of one player's do_muligans.
AfterMuligans ==
    IF mul_index = 0
    THEN /\ mul_index' = 1
         /\ num_muls' = 0
         /\ pc' = "muligan"
    ELSE /\ UNCHANGED <<mul_index, num_muls>>
         /\ pc' = "untap"

Panic(msg) ==
    /\ pc' = "panic"
    /\ panic_msg' = msg

\* One iteration of the loop of do_muligans for player mul_index.
do_muligans ==
    /\ pc = "muligan"
    /\ \E shuffled \in Shuffles(player_states[mul_index].deck),
          choice \in MuliganChoices :
        LET ps0 == [player_states[mul_index] EXCEPT !.deck = shuffled]
            d == DrawN(ps0, HandSize)
            kept == Bottom(d.ps, choice.remove, HandSize - 1)
        IN
        /\ perform_muligan' = choice
        /\ UNCHANGED <<num_turn, current_player_index, combat, main_phase_plays,
                       discard_indices, winner, discarded, died>>
        /\ IF d.result = "Empty"
           THEN /\ Panic("291: draw_result == Nonempty")
                /\ UNCHANGED <<player_states, mul_index, num_muls>>
           ELSE IF ~choice.muligan
           THEN IF Len(choice.remove) # num_muls
                THEN /\ Panic("295: remove.len() == num_muls")
                     /\ UNCHANGED <<player_states, mul_index, num_muls>>
                ELSE IF \E k \in 1..Len(choice.remove) : ~(choice.remove[k] < HandSize)
                THEN /\ Panic("297: index < 7")
                     /\ UNCHANGED <<player_states, mul_index, num_muls>>
                ELSE IF Len(kept.hand) # HandSize - num_muls
                THEN /\ Panic("305: hand.len() == 7 - num_muls")
                     /\ UNCHANGED <<player_states, mul_index, num_muls>>
                ELSE /\ player_states' = [player_states EXCEPT ![mul_index] = kept]
                     /\ AfterMuligans
                     /\ UNCHANGED panic_msg
           ELSE /\ player_states' =
                      [player_states EXCEPT ![mul_index] =
                          [d.ps EXCEPT !.deck = d.ps.deck \o d.ps.hand, !.hand = <<>>]]
                /\ UNCHANGED panic_msg
                /\ IF num_muls + 1 < HandSize
                   THEN /\ num_muls' = num_muls + 1
                        /\ UNCHANGED <<mul_index, pc>>
                   ELSE AfterMuligans

\* ------------------------------------------------------------------ turn
NoMap == [k \in {} |-> <<>>]

NoPlays == [land |-> FALSE, cards |-> <<>>]

NoChoice == [muligan |-> FALSE, remove |-> <<>>]

NoSnapshot ==
    [i \in 0..1 |-> [deck |-> <<>>, hand |-> <<>>, num_lands |-> 0,
                     creatures |-> <<>>, life |-> 0]]

\* EndOfTurn that does not switch the current player.
EndOfTurn_mut ==
    /\ current_player_index' = current_player_index
    /\ num_turn' = IF current_player_index = 0 THEN num_turn + 1 ELSE num_turn
    /\ pc' = "untap"
    /\ attackers' = <<>>
    /\ blocking_pairs' = <<>>
    /\ blocking_arrangement' = NoMap
    /\ ordered_blockers' = NoMap
    /\ all_blockers' = NoMap
    /\ dead_attackers' = <<>>
    /\ dead_blockers' = <<>>
    /\ pre_combat' = NoSnapshot

\* EndOfTurn that increments the turn number after every turn.
EndOfTurn_count ==
    /\ current_player_index' = 1 - current_player_index
    /\ num_turn' = num_turn + 1
    /\ pc' = "untap"
    /\ attackers' = <<>>
    /\ blocking_pairs' = <<>>
    /\ blocking_arrangement' = NoMap
    /\ ordered_blockers' = NoMap
    /\ all_blockers' = NoMap
    /\ dead_attackers' = <<>>
    /\ dead_blockers' = <<>>
    /\ pre_combat' = NoSnapshot

\* main.rs:654-658: switch current player, increment turn number as appropriate;
\* the locals of the iteration go out of scope.
EndOfTurn ==
    /\ current_player_index' = 1 - current_player_index
    /\ num_turn' = IF 1 - current_player_index = 0 THEN num_turn + 1 ELSE num_turn
    /\ pc' = "untap"
    /\ attackers' = <<>>
    /\ blocking_pairs' = <<>>
    /\ blocking_arrangement' = NoMap
    /\ ordered_blockers' = NoMap
    /\ all_blockers' = NoMap
    /\ dead_attackers' = <<>>
    /\ dead_blockers' = <<>>
    /\ pre_combat' = NoSnapshot

\* DeckedWinner with the two winners exchanged.
DeckedWinner_mut(i) == IF i = 0 THEN "Player1" ELSE "Player2"

\* main.rs:523-527: the winner when player i is decked.
DeckedWinner(i) == IF i = 0 THEN "Player2" ELSE "Player1"

\* main.rs:630-634: the winner when player i has attacked for lethal damage.
LifeWinner(i) == IF i = 0 THEN "Player1" ELSE "Player2"

\* LifeLost with < for <=.
LifeLost_mut(life) == life < 0

\* main.rs:627
LifeLost(life) == life <= 0

\* SkipDraw that skips no draw step.
SkipDraw_mut(turn, i) == FALSE

\* main.rs:514-518: the draw step is skipped for player 0 on turn 1.
SkipDraw(turn, i) == turn = 1 /\ i = 0

\* main.rs:509-531: untap, draw step, sort_hand.
BeginTurn ==
    /\ pc = "untap"
    /\ LET i == current_player_index
           untapped == untap(player_states[i])
           d == IF SkipDraw(num_turn, i)
                THEN [result |-> "Nonempty", ps |-> untapped]
                ELSE draw(untapped)
       IN
       /\ perform_muligan' = NoChoice
       /\ main_phase_plays' = NoPlays
       /\ discard_indices' = <<>>
       /\ UNCHANGED <<num_turn, current_player_index, mul_index, num_muls, combat,
                      panic_msg, discarded, died>>
       /\ IF d.result = "Empty"
          THEN /\ player_states' = [player_states EXCEPT ![i] = untapped]
               /\ winner' = DeckedWinner(i)
               /\ pc' = "over"
          ELSE /\ player_states' = [player_states EXCEPT ![i] = sort_hand(d.ps)]
               /\ pc' = "attack"
               /\ UNCHANGED winner

\* DeclareAttackers without the "No double attacks" assert.
RECURSIVE DeclareAttackers_mut(_, _)
DeclareAttackers_mut(creatures, decl) ==
    IF decl = <<>> THEN [msg |-> "", creatures |-> creatures]
    ELSE LET attacker == Head(decl)
         IN IF ~(attacker < Len(creatures))
            THEN [msg |-> "537: attacker < current_state.creatures.len()",
                  creatures |-> creatures]
            ELSE DeclareAttackers_mut(
                     [creatures EXCEPT ![attacker + 1].tapped = TRUE], Tail(decl))

\* main.rs:536-543: each declared attacker is checked and tapped, in order.
RECURSIVE DeclareAttackers(_, _)
DeclareAttackers(creatures, decl) ==
    IF decl = <<>> THEN [msg |-> "", creatures |-> creatures]
    ELSE LET attacker == Head(decl)
         IN IF ~(attacker < Len(creatures))
            THEN [msg |-> "537: attacker < current_state.creatures.len()",
                  creatures |-> creatures]
            ELSE IF At(creatures, attacker).tapped
            THEN [msg |-> "539: No double attacks", creatures |-> creatures]
            ELSE DeclareAttackers(
                     [creatures EXCEPT ![attacker + 1].tapped = TRUE], Tail(decl))

\* The values a strategy may return from attack.
AttackChoices(cur) == SeqsUpTo(IdxOf(Len(cur.creatures)), MaxDecl)

\* main.rs:532-546: the attack decision point.
Attack ==
    /\ pc = "attack"
    /\ \E decl \in AttackChoices(Cur) :
        LET r == DeclareAttackers(Cur.creatures, decl)
        IN
        /\ attackers' = decl
        /\ UNCHANGED <<num_turn, current_player_index, mul_index, num_muls,
                       perform_muligan, blocking_pairs, blocking_arrangement,
                       ordered_blockers, all_blockers, dead_attackers, dead_blockers,
                       pre_combat, main_phase_plays, discard_indices, winner,
                       discarded, died>>
        /\ IF r.msg # ""
           THEN /\ Panic(r.msg)
                /\ UNCHANGED player_states
           ELSE /\ player_states' = [player_states EXCEPT
                       ![current_player_index].creatures = r.creatures]
                /\ pc' = "block"
                /\ UNCHANGED panic_msg

\* HashMap entry(k).or_insert(vec![]).push(v)
MapPush(m, k, v) ==
    [x \in DOMAIN m \cup {k} |->
        IF x = k THEN (IF k \in DOMAIN m THEN Append(m[k], v) ELSE <<v>>) ELSE m[x]]

\* DeclareBlockers without the "Creatures can't block twice" assert.
RECURSIVE DeclareBlockers_mut(_, _, _, _, _)
DeclareBlockers_mut(pairs, cur, oth, blockers, arr) ==
    IF pairs = <<>> THEN [msg |-> "", arr |-> arr]
    ELSE LET blocker == Head(pairs)[1]
             attacker == Head(pairs)[2]
         IN IF ~(attacker < Len(cur.creatures))
            THEN [msg |-> "554: attacker < current_state.creatures.len()", arr |-> arr]
            ELSE IF ~(blocker < Len(oth.creatures))
            THEN [msg |-> "555: blocker < other_state.creatures.len()", arr |-> arr]
            ELSE IF At(oth.creatures, blocker).tapped
            THEN [msg |-> "556: Tapped creatures can't block", arr |-> arr]
            ELSE DeclareBlockers_mut(Tail(pairs), cur, oth, blockers \cup {blocker},
                                     MapPush(arr, attacker, blocker))

\* main.rs:553-566: each (blocker, attacker) pair is checked and recorded, in order.
RECURSIVE DeclareBlockers(_, _, _, _, _)
DeclareBlockers(pairs, cur, oth, blockers, arr) ==
    IF pairs = <<>> THEN [msg |-> "", arr |-> arr]
    ELSE LET blocker == Head(pairs)[1]
             attacker == Head(pairs)[2]
         IN IF ~(attacker < Len(cur.creatures))
            THEN [msg |-> "554: attacker < current_state.creatures.len()", arr |-> arr]
            ELSE IF ~(blocker < Len(oth.creatures))
            THEN [msg |-> "555: blocker < other_state.creatures.len()", arr |-> arr]
            ELSE IF At(oth.creatures, blocker).tapped
            THEN [msg |-> "556: Tapped creatures can't block", arr |-> arr]
            ELSE IF blocker \in blockers
            THEN [msg |-> "560: Creatures can't block twice", arr |-> arr]
            ELSE DeclareBlockers(Tail(pairs), cur, oth, blockers \cup {blocker},
                                 MapPush(arr, attacker, blocker))

\* The values a strategy may return from block: (blocker, attacker) pairs.
BlockChoices(cur, oth) ==
    SeqsUpTo(IdxOf(Len(oth.creatures)) \X IdxOf(Len(cur.creatures)), MaxPairs)

\* main.rs:547-566: the block decision point.
Block ==
    /\ pc = "block"
    /\ \E pairs \in BlockChoices(Cur, Oth) :
        LET r == DeclareBlockers(pairs, Cur, Oth, {}, NoMap)
        IN
        /\ blocking_pairs' = pairs
        /\ UNCHANGED <<player_states, num_turn, current_player_index, mul_index,
                       num_muls, perform_muligan, attackers, ordered_blockers,
                       all_blockers, dead_attackers, dead_blockers, pre_combat,
                       main_phase_plays, discard_indices, winner, discarded, died>>
        /\ IF r.msg # ""
           THEN /\ Panic(r.msg)
                /\ UNCHANGED blocking_arrangement
           ELSE /\ blocking_arrangement' = r.arr
                /\ pc' = "order"
                /\ UNCHANGED panic_msg

\* OrderingAccepted without the last assert (main.rs:587-589).
OrderingAccepted_mut(arr, ord) ==
    /\ Cardinality(DOMAIN arr) = Cardinality(DOMAIN ord)
    /\ \A attacker \in DOMAIN ord :
        /\ attacker \in DOMAIN arr
        /\ Len(ord[attacker]) = Len(arr[attacker])
        /\ \A k \in 1..Len(ord[attacker]) : Contains(arr[attacker], ord[attacker][k])

\* main.rs:571-590: the asserts on the ordering returned by order_blockers.
OrderingAccepted(arr, ord) ==
    /\ Cardinality(DOMAIN arr) = Cardinality(DOMAIN ord)
    /\ \A attacker \in DOMAIN ord :
        /\ attacker \in DOMAIN arr
        /\ Len(ord[attacker]) = Len(arr[attacker])
        /\ \A k \in 1..Len(ord[attacker]) : Contains(arr[attacker], ord[attacker][k])
        /\ \A k \in 1..Len(arr[attacker]) : Contains(ord[attacker], arr[attacker][k])

\* main.rs:591-595: add in unblocked attackers.
AddUnblocked(ord, decl) ==
    [a \in DOMAIN ord \cup Range(decl) |-> IF a \in DOMAIN ord THEN ord[a] ELSE <<>>]

\* WalkBlockers with continue for break: a blocker that does not fit is skipped.
RECURSIVE WalkBlockers_mut(_, _, _)
WalkBlockers_mut(blockers, attacker_damage_remaining, oth) ==
    IF blockers = <<>> THEN <<>>
    ELSE LET blocker_tou == At(oth.creatures, Head(blockers)).tou
         IN IF blocker_tou > attacker_damage_remaining
            THEN WalkBlockers_mut(Tail(blockers), attacker_damage_remaining, oth)
            ELSE <<Head(blockers)>> \o
                 WalkBlockers_mut(Tail(blockers),
                                  attacker_damage_remaining - blocker_tou, oth)

\* main.rs:604-613: the attacker's power is assigned to its blockers in order.
RECURSIVE WalkBlockers(_, _, _)
WalkBlockers(blockers, attacker_damage_remaining, oth) ==
    IF blockers = <<>> THEN <<>>
    ELSE LET blocker_tou == At(oth.creatures, Head(blockers)).tou
         IN IF blocker_tou > attacker_damage_remaining
            THEN <<>>
            ELSE <<Head(blockers)>> \o
                 WalkBlockers(Tail(blockers), attacker_damage_remaining - blocker_tou, oth)

\* main.rs:614-617
blocker_damage_total(blockers, oth) ==
    SumSeq([k \in 1..Len(blockers) |-> At(oth.creatures, blockers[k]).pow])

\* AttackerDies with > for >=.
AttackerDies_mut(blockers, attacker_tou, oth) ==
    blocker_damage_total(blockers, oth) > attacker_tou

\* main.rs:618-621
AttackerDies(blockers, attacker_tou, oth) ==
    blocker_damage_total(blockers, oth) >= attacker_tou

\* DamageStep in which an attacker dies only if none has died before it.
DamageStep_dep(acc, attacker, blockers, cur, oth) ==
    LET attacker_pow == At(cur.creatures, attacker).pow
        attacker_tou == At(cur.creatures, attacker).tou
    IN IF blockers = <<>>
       THEN [acc EXCEPT !.life = @ - attacker_pow]
       ELSE [acc EXCEPT
               !.dead_blockers = @ \o WalkBlockers(blockers, attacker_pow, oth),
               !.dead_attackers = IF /\ AttackerDies(blockers, attacker_tou, oth)
                                     /\ acc.dead_attackers = <<>>
                                  THEN Append(@, attacker) ELSE @]

\* DamageStep in which a blocked attacker also hits the defending player.
DamageStep_mut(acc, attacker, blockers, cur, oth) ==
    LET attacker_pow == At(cur.creatures, attacker).pow
        attacker_tou == At(cur.creatures, attacker).tou
    IN [acc EXCEPT
          !.life = @ - attacker_pow,
          !.dead_blockers = @ \o WalkBlockers(blockers, attacker_pow, oth),
          !.dead_attackers = IF blockers # <<>> /\ AttackerDies(blockers, attacker_tou, oth)
                             THEN Append(@, attacker) ELSE @]

\* main.rs:600-622: the body of the damage loop for one attacker; acc holds the
\* defender's life and the two lists of the dead.
DamageStep(acc, attacker, blockers, cur, oth) ==
    LET attacker_pow == At(cur.creatures, attacker).pow
        attacker_tou == At(cur.creatures, attacker).tou
    IN IF blockers = <<>>
       THEN [acc EXCEPT !.life = @ - attacker_pow]
       ELSE [acc EXCEPT
               !.dead_blockers = @ \o WalkBlockers(blockers, attacker_pow, oth),
               !.dead_attackers = IF AttackerDies(blockers, attacker_tou, oth)
                                  THEN Append(@, attacker) ELSE @]

\* main.rs:596-623: the damage loop, over the HashMap in the iteration order iter.
RECURSIVE Damage(_, _, _, _, _)
Damage(iter, allb, cur, oth, acc) ==
    IF iter = <<>> THEN acc
    ELSE Damage(Tail(iter), allb, cur, oth,
                DamageStep(acc, Head(iter), allb[Head(iter)], cur, oth))

\* The orders in which a HashMap with key set K may be iterated.
IterationOrders(K) ==
    {s \in [1..Cardinality(K) -> K] : \A a \in K : \E k \in DOMAIN s : s[k] = a}

\* The values a strategy may return from order_blockers for the proposed
\* assignment arr: every map with the keys of arr and lists of the proposed
\* lengths (the reorderings, and lists with a repeated or a foreign blocker),
\* arr with one list one blocker shorter or longer, arr without one of its keys,
\* arr with one key renamed, and arr with one more key.
OrderChoices(arr, cur, oth) ==
    LET B == IdxOf(Len(oth.creatures))
        A == IdxOf(Len(cur.creatures))
        Without(a) == [x \in DOMAIN arr \ {a} |-> arr[x]]
        With(m, a, l) == [x \in DOMAIN m \cup {a} |-> IF x = a THEN l ELSE m[x]]
    IN  {m \in [DOMAIN arr -> SeqsUpTo(B, MaxPairs)] :
            \A a \in DOMAIN arr : Len(m[a]) = Len(arr[a])}
        \cup {[arr EXCEPT ![a] = Tail(@)] : a \in DOMAIN arr}
        \cup {[arr EXCEPT ![a] = Append(@, b)] : a \in DOMAIN arr, b \in B}
        \cup {Without(a) : a \in DOMAIN arr}
        \cup {With(Without(a), a2, arr[a]) : a \in DOMAIN arr, a2 \in A \ DOMAIN arr}
        \cup {With(arr, a2, <<b>>) : a2 \in A \ DOMAIN arr, b \in B}

\* main.rs:567-638: the order_blockers decision point, damage, deaths and the
\* life check.
Order ==
    /\ pc = "order"
    /\ \E ord \in OrderChoices(blocking_arrangement, Cur, Oth) :
        /\ ordered_blockers' = ord
        /\ UNCHANGED <<num_turn, current_player_index, mul_index, num_muls,
                       perform_muligan, attackers, blocking_pairs,
                       blocking_arrangement, main_phase_plays, discard_indices,
                       discarded>>
        /\ IF ~OrderingAccepted(blocking_arrangement, ord)
           THEN /\ Panic("571-589: ordered_blockers")
                /\ UNCHANGED <<player_states, all_blockers, dead_attackers,
                               dead_blockers, pre_combat, winner, died>>
           ELSE LET allb == AddUnblocked(ord, attackers)
                    i == current_player_index
                IN \E iter \in IterationOrders(DOMAIN allb) :
                    LET acc == Damage(iter, allb, Cur, Oth,
                                      [life |-> Oth.life, dead_attackers |-> <<>>,
                                       dead_blockers |-> <<>>])
                        cur_die == die(Cur, acc.dead_attackers)
                        oth_die == die([Oth EXCEPT !.life = acc.life], acc.dead_blockers)
                    IN
                    /\ all_blockers' = allb
                    /\ IF ~cur_die.ok \/ ~oth_die.ok
                       THEN /\ Panic("387: Correct number of creatures die")
                            /\ UNCHANGED <<player_states, dead_attackers,
                                           dead_blockers, pre_combat, winner, died>>
                       ELSE /\ player_states' = [player_states EXCEPT
                                   ![i] = cur_die.ps, ![Other(i)] = oth_die.ps]
                            /\ dead_attackers' = acc.dead_attackers
                            /\ dead_blockers' = acc.dead_blockers
                            /\ pre_combat' = player_states
                            /\ died' = [died EXCEPT
                                   ![i] = @ + Len(Cur.creatures) - Len(cur_die.ps.creatures),
                                   ![Other(i)] = @ + Len(Oth.creatures)
                                                   - Len(oth_die.ps.creatures)]
                            /\ UNCHANGED panic_msg
                            /\ IF LifeLost(acc.life)
                               THEN /\ winner' = LifeWinner(i)
                                    /\ pc' = "over"
                               ELSE /\ pc' = "main"
                                    /\ UNCHANGED winner

\* CostCheck without the "Only cast creatures" panic.
RECURSIVE CostCheck_mut(_, _)
CostCheck_mut(hand, cards) ==
    IF cards = <<>> THEN ""
    ELSE IF ~(Head(cards) < Len(hand)) THEN "332: *i < self.hand.len()"
    ELSE CostCheck_mut(hand, Tail(cards))

\* main.rs:328-340: the first failed check while summing the costs, if any.
RECURSIVE CostCheck(_, _)
CostCheck(hand, cards) ==
    IF cards = <<>> THEN ""
    ELSE IF ~(Head(cards) < Len(hand)) THEN "332: *i < self.hand.len()"
    ELSE IF At(hand, Head(cards)).kind # "Creature" THEN "337: Only cast creatures"
    ELSE CostCheck(hand, Tail(cards))

\* Iterator::position(|c| c == &Card::Land): the index of the first land, or -1.
land_position(hand) ==
    IF Contains(hand, Land)
    THEN (CHOOSE k \in 1..Len(hand) :
              hand[k] = Land /\ \A j \in 1..(k - 1) : hand[j] # Land) - 1
    ELSE -1

\* PlayLand that counts the land twice.
PlayLand_twice(ps) ==
    LET lp == (CHOOSE k \in 1..Len(ps.hand) :
                   ps.hand[k] = Land /\ \A j \in 1..(k - 1) : ps.hand[j] # Land) - 1
    IN [ps EXCEPT !.hand = SubSeq(ps.hand, 1, lp) \o SubSeq(ps.hand, lp + 2, Len(ps.hand)),
                  !.num_lands = @ + 2]

\* PlayLand without hand.remove(land_position).
PlayLand_mut(ps) == [ps EXCEPT !.num_lands = @ + 1]

\* main.rs:325-326: the land leaves the hand and is counted.
PlayLand(ps) ==
    LET lp == land_position(ps.hand)
    IN [ps EXCEPT !.hand = SubSeq(ps.hand, 1, lp) \o SubSeq(ps.hand, lp + 2, Len(ps.hand)),
                  !.num_lands = @ + 1]

\* main.rs:314-364
handle_main_phase_plays(ps, plays) ==
    LET lp == land_position(ps.hand)
        ps1 == IF plays.land THEN PlayLand(ps) ELSE ps
        total_cmc == SumSeq([k \in 1..Len(plays.cards) |->
                                At(ps1.hand, plays.cards[k]).cmc])
        cast == [k \in 1..Len(plays.cards) |-> Creature_new(At(ps1.hand, plays.cards[k]))]
        kept == RetainNotNamed(ps1.hand, plays.cards)
    IN IF plays.land /\ lp < 0
       THEN [msg |-> "320: Player tried to play land, so land is present.", ps |-> ps]
       ELSE IF plays.land /\ \E k \in (lp + 1)..Len(ps.hand) : ps.hand[k].kind = "Creature"
       THEN [msg |-> "322: Creature after land", ps |-> ps]
       ELSE IF CostCheck(ps1.hand, plays.cards) # ""
       THEN [msg |-> CostCheck(ps1.hand, plays.cards), ps |-> ps]
       ELSE IF ~(total_cmc <= ps1.num_lands)
       THEN [msg |-> "341: total_cmc <= self.num_lands", ps |-> ps]
       ELSE IF Len(ps1.hand) # Len(kept) + Len(plays.cards)
       THEN [msg |-> "359: Play correct number of cards", ps |-> ps]
       ELSE [msg |-> "", ps |-> [ps1 EXCEPT !.hand = kept, !.creatures = @ \o cast]]

\* The values a strategy may return from main_phase.
MainChoices(cur) ==
    {[land |-> l, cards |-> c] :
        l \in BOOLEAN, c \in SeqsUpTo(0..Len(cur.hand), MaxCast)}

\* main.rs:639-658: the main_phase decision point, then the discard test or the
\* end of the turn.
Main ==
    /\ pc = "main"
    /\ \E plays \in MainChoices(Cur) :
        LET r == handle_main_phase_plays(Cur, plays)
        IN
        /\ Len(Cur.creatures) + Len(plays.cards) <= MaxCreatures
        /\ main_phase_plays' = plays
        /\ UNCHANGED <<mul_index, num_muls, perform_muligan, discard_indices, winner,
                       discarded, died>>
        /\ IF r.msg # ""
           THEN /\ Panic(r.msg)
                /\ UNCHANGED <<player_states, num_turn, current_player_index, combat>>
           ELSE /\ player_states' = [player_states EXCEPT ![current_player_index] = r.ps]
                /\ UNCHANGED panic_msg
                /\ IF Len(r.ps.hand) > HandSize
                   THEN /\ pc' = "discard"
                        /\ UNCHANGED <<num_turn, current_player_index, combat>>
                   ELSE EndOfTurn

\* handle_discard without its first assert (main.rs:366-370).
handle_discard_mut(ps, indices) ==
    LET kept == RetainNotNamed(ps.hand, indices)
    IN IF Len(kept) # HandSize
       THEN [msg |-> "377: Discard correct number of cards", ps |-> ps]
       ELSE [msg |-> "", ps |-> [ps EXCEPT !.hand = kept]]

\* main.rs:365-378
handle_discard(ps, indices) ==
    LET kept == RetainNotNamed(ps.hand, indices)
    IN IF Len(indices) # Len(ps.hand) - HandSize
       THEN [msg |-> "366: Attempt to discard correct number of cards", ps |-> ps]
       ELSE IF Len(kept) # HandSize
       THEN [msg |-> "377: Discard correct number of cards", ps |-> ps]
       ELSE [msg |-> "", ps |-> [ps EXCEPT !.hand = kept]]

\* The values a strategy may return from discard.
DiscardChoices(cur) == SeqsUpTo(0..Len(cur.hand), Len(cur.hand) - HandSize + 1)

\* main.rs:646-658: the discard decision point and the end of the turn.
Discard ==
    /\ pc = "discard"
    /\ \E indices \in DiscardChoices(Cur) :
        LET r == handle_discard(Cur, indices)
        IN
        /\ discard_indices' = indices
        /\ UNCHANGED <<mul_index, num_muls, perform_muligan, main_phase_plays, winner,
                       died>>
        /\ IF r.msg # ""
           THEN /\ Panic(r.msg)
                /\ UNCHANGED <<player_states, num_turn, current_player_index, combat,
                               discarded>>
           ELSE /\ player_states' = [player_states EXCEPT ![current_player_index] = r.ps]
                /\ discarded' = [discarded EXCEPT ![current_player_index] =
                                    @ + Len(Cur.hand) - Len(r.ps.hand)]
                /\ UNCHANGED panic_msg
                /\ EndOfTurn

Init ==
    /\ player_states = [i \in 0..1 |-> PlayerState_new(i)]
    /\ num_turn = 1
    /\ current_player_index = 0
    /\ pc = "muligan"
    /\ mul_index = 0
    /\ num_muls = 0
    /\ perform_muligan = NoChoice
    /\ attackers = <<>>
    /\ blocking_pairs = <<>>
    /\ blocking_arrangement = NoMap
    /\ ordered_blockers = NoMap
    /\ all_blockers = NoMap
    /\ dead_attackers = <<>>
    /\ dead_blockers = <<>>
    /\ pre_combat = NoSnapshot
    /\ main_phase_plays = NoPlays
    /\ discard_indices = <<>>
    /\ winner = "None"
    /\ panic_msg = ""
    /\ discarded = [i \in 0..1 |-> 0]
    /\ died = [i \in 0..1 |-> 0]

Next ==
    \/ do_muligans
    \/ BeginTurn
    \/ Attack
    \/ Block
    \/ Order
    \/ Main
    \/ Discard

Spec == Init /\ [][Next]_vars

\* play runs on one thread that nothing suspends: a step that can be taken is
\* taken.
SpecLive == Init /\ [][Next]_vars /\ WF_vars(Next)

\* ------------------------------------------------------------- LandsRule
\* Matches in which both strategies keep their seven, declare no attacker and
\* cast no creature, and break no contract, as LandsRule against LandsRule
\* (main.rs:698); the land play and the card discarded are left open.
PassiveStep ==
    /\ pc = "muligan" => perform_muligan' = [muligan |-> FALSE, remove |-> <<>>]
    /\ pc = "attack" => attackers' = <<>>
    /\ pc = "main" => main_phase_plays'.cards = <<>>
    /\ pc' # "panic"

NextPassive ==
    \/ do_muligans /\ PassiveStep
    \/ BeginTurn /\ PassiveStep
    \/ Attack /\ PassiveStep
    \/ Block /\ PassiveStep
    \/ Order /\ PassiveStep
    \/ Main /\ PassiveStep
    \/ Discard /\ PassiveStep

SpecPassive == Init /\ [][NextPassive]_vars /\ WF_vars(NextPassive)

\* ------------------------------------------------------------- bottoming
\* The KeepExcept branch of do_muligans and the draws that follow it, for
\* player 0, with every card of the deck a different card so that each can be
\* followed: SpecBottom starts where muligan_choice has answered KeepExcept
\* (remove) after num_muls mulligans, with remove.len() == num_muls and every
\* index < 7 (main.rs:295-298), the hand any arrangement of HandCards and the
\* library Library0; it bottoms the named cards and then draws the library out.
DistinctCards ==
    <<CreatureCard(0, 1, 1), CreatureCard(0, 0, 3), CreatureCard(1, 2, 2),
      CreatureCard(1, 0, 4), CreatureCard(2, 3, 3), CreatureCard(2, 1, 5),
      CreatureCard(3, 5, 4), CreatureCard(3, 4, 5), CreatureCard(4, 6, 6)>>

HandCards == {DistinctCards[k] : k \in 1..HandSize}

Library0 == [k \in 1..LibrarySize |-> DistinctCards[HandSize + k]]

InitBottom ==
    /\ \E p \in Permutations(1..HandSize),
          remove \in SeqsUpTo(0..(HandSize - 1), HandSize - 1) :
        /\ player_states =
               [i \in 0..1 |->
                   IF i = 0
                   THEN [PlayerState_new(0) EXCEPT
                            !.deck = Library0,
                            !.hand = [k \in 1..HandSize |-> DistinctCards[p[k]]]]
                   ELSE PlayerState_new(1)]
        /\ perform_muligan = [muligan |-> FALSE, remove |-> remove]
        /\ num_muls = Len(remove)
    /\ num_turn = 1
    /\ current_player_index = 0
    /\ pc = "keep"
    /\ mul_index = 0
    /\ attackers = <<>>
    /\ blocking_pairs = <<>>
    /\ blocking_arrangement = NoMap
    /\ ordered_blockers = NoMap
    /\ all_blockers = NoMap
    /\ dead_attackers = <<>>
    /\ dead_blockers = <<>>
    /\ pre_combat = NoSnapshot
    /\ main_phase_plays = NoPlays
    /\ discard_indices = <<>>
    /\ winner = "None"
    /\ panic_msg = ""
    /\ discarded = [i \in 0..1 |-> 0]
    /\ died = [i \in 0..1 |-> 0]

\* main.rs:299-306: the bottoming loop and the assert on the hand it leaves.
KeepExcept ==
    /\ pc = "keep"
    /\ LET kept == Bottom(player_states[0], perform_muligan.remove, HandSize - 1)
       IN IF Len(kept.hand) # HandSize - num_muls
          THEN /\ Panic("305: hand.len() == 7 - num_muls")
               /\ UNCHANGED player_states
          ELSE /\ player_states' = [player_states EXCEPT ![0] = kept]
               /\ pc' = "drawing"
               /\ UNCHANGED panic_msg
    /\ UNCHANGED <<num_turn, current_player_index, mul_index, num_muls,
                   perform_muligan, combat, main_phase_plays, discard_indices,
                   winner, discarded, died>>

\* main.rs:519: a later draw of the player.
DrawOn ==
    /\ pc = "drawing"
    /\ draw(player_states[0]).result = "Nonempty"
    /\ player_states' = [player_states EXCEPT ![0] = draw(player_states[0]).ps]
    /\ UNCHANGED <<num_turn, current_player_index, pc, mul_index, num_muls,
                   perform_muligan, combat, main_phase_plays, discard_indices,
                   winner, panic_msg, discarded, died>>

NextBottom ==
    \/ KeepExcept
    \/ DrawOn

SpecBottom == InitBottom /\ [][NextBottom]_vars

\* ---------------------------------------------------------------- combat
\* The combat of one turn as a function of the two battlefields and of the three
\* combat decisions: SpecCombat starts at the attack decision point, after
\* untap, from any two battlefields of at most MaxCreatures creatures of
\* CombatCards, and runs the attack, block and order_blockers steps.  The
\* fields combat does not read are left as PlayerState::new sets them.
CombatCards ==
    {CreatureCard(0, 1, 1), CreatureCard(0, 0, 3), CreatureCard(1, 2, 2),
     CreatureCard(3, 5, 4)}

Battlefields == SeqsUpTo({Creature_new(c) : c \in CombatCards}, MaxCreatures)

InitCombat ==
    /\ \E cur_creatures \in Battlefields, oth_creatures \in Battlefields :
        player_states =
            [i \in 0..1 |-> [PlayerState_new(i) EXCEPT
                !.creatures = IF i = 0 THEN cur_creatures ELSE oth_creatures]]
    /\ num_turn = 2
    /\ current_player_index = 0
    /\ pc = "attack"
    /\ mul_index = 1
    /\ num_muls = 0
    /\ perform_muligan = NoChoice
    /\ attackers = <<>>
    /\ blocking_pairs = <<>>
    /\ blocking_arrangement = NoMap
    /\ ordered_blockers = NoMap
    /\ all_blockers = NoMap
    /\ dead_attackers = <<>>
    /\ dead_blockers = <<>>
    /\ pre_combat = NoSnapshot
    /\ main_phase_plays = NoPlays
    /\ discard_indices = <<>>
    /\ winner = "None"
    /\ panic_msg = ""
    /\ discarded = [i \in 0..1 |-> 0]
    /\ died = [i \in 0..1 |-> 0]

NextCombat ==
    \/ Attack
    \/ Block
    \/ Order

SpecCombat == InitCombat /\ [][NextCombat]_vars


\* ------------------------------------------------------------ properties
PreCur == pre_combat[current_player_index]
PreOth == pre_combat[Other(current_player_index)]

\* The damage loop of this turn has just run.
JustFought == pc \in {"main", "over"} /\ pre_combat # NoSnapshot

RECURSIVE SumPow(_, _)
SumPow(S, creatures) ==
    IF S = {} THEN 0
    ELSE LET a == CHOOSE x \in S : TRUE
         IN At(creatures, a).pow + SumPow(S \ {a}, creatures)

\* The creatures of a battlefield whose index is not in gone, in order.
Survivors(creatures, gone) ==
    LET idx == SelectSeq([k \in 1..Len(creatures) |-> k], LAMBDA k : (k - 1) \notin gone)
    IN [j \in 1..Len(idx) |-> creatures[idx[j]]]

CardsHeld(i) ==
    Len(player_states[i].deck) + Len(player_states[i].hand)
    + Len(player_states[i].creatures)

\* C1 as stated: for each player, library + hand + creatures + cards discarded
\* or dead so far is the deck size (60 in the source, DeckSize here).
C1_AsStated ==
    \A i \in 0..1 : CardsHeld(i) + discarded[i] + died[i] = DeckSize

\* C1 amended: for each player, library + hand + creatures + lands_in_play +
\* cards discarded so far + own creatures dead so far is the deck size.
C1_CardCount ==
    \A i \in 0..1 :
        CardsHeld(i) + player_states[i].num_lands + discarded[i] + died[i] = DeckSize

C1_Witness ==
    /\ player_states[0].num_lands > 0
    /\ died[0] > 0
    /\ died[1] > 0

\* The active player is at the draw step, which is not skipped, with an empty
\* library.
DeckedAtDraw ==
    /\ pc = "untap"
    /\ ~(num_turn = 1 /\ current_player_index = 0)
    /\ Cur.deck = <<>>

SameButTapped(c1, c2) ==
    /\ Len(c1) = Len(c2)
    /\ \A k \in 1..Len(c1) : [c1[k] EXCEPT !.tapped = FALSE] = [c2[k] EXCEPT !.tapped = FALSE]

\* C2: a draw step with an empty library changes no library, hand, land count,
\* life or battlefield (the untap before it aside) and ends the match at once
\* with the opponent of the active player as winner; nothing follows the end.
C2_Decking ==
    [][ /\ DeckedAtDraw =>
            /\ pc' = "over"
            /\ winner' = IF current_player_index = 0 THEN "Player2" ELSE "Player1"
            /\ current_player_index' = current_player_index
            /\ \A i \in 0..1 :
                /\ player_states'[i].deck = player_states[i].deck
                /\ player_states'[i].hand = player_states[i].hand
                /\ player_states'[i].num_lands = player_states[i].num_lands
                /\ player_states'[i].life = player_states[i].life
                /\ SameButTapped(player_states'[i].creatures, player_states[i].creatures)
            /\ Oth' = Oth
        /\ pc = "over" => FALSE ]_vars

C2_Witness ==
    /\ pc = "over"
    /\ winner = "Player1"
    /\ current_player_index = 1
    /\ Cur.deck = <<>>
    /\ \A i \in 0..1 : player_states[i].life > 0

\* C3: when the damage loop leaves the defending player at life <= 0 the match
\* ends with the active player as winner, and otherwise goes on to the main
\* phase; nothing follows the end, and no main or discard step is reached with
\* a player at life <= 0.
C3_LifeLoss ==
    [][ /\ (pc = "order" /\ pc' # "panic") =>
            IF Oth'.life <= 0
            THEN /\ pc' = "over"
                 /\ winner' = IF current_player_index = 0 THEN "Player1" ELSE "Player2"
                 /\ current_player_index' = current_player_index
            ELSE pc' = "main" /\ winner' = "None"
        /\ pc = "over" => FALSE
        /\ pc' \in {"main", "discard"} => \A i \in 0..1 : player_states'[i].life > 0
      ]_vars

C3_Witness ==
    /\ pc = "over"
    /\ winner = "Player1"
    /\ current_player_index = 0
    /\ Oth.life <= 0
    /\ attackers # <<>>

\* The declared attackers that no blocking pair names.
Unblocked ==
    {a \in Range(attackers) :
        \A k \in 1..Len(blocking_pairs) : blocking_pairs[k][2] # a}

\* C4: combat lowers the defending player's life by exactly the sum of the
\* powers of the attackers without a blocker, below 0 when that is more than
\* the life left.
C4_LifeLossIsUnblockedPower ==
    JustFought => Oth.life = PreOth.life - SumPow(Unblocked, PreCur.creatures)

C4_Witness ==
    /\ JustFought
    /\ Oth.life < 0
    /\ Unblocked # {}
    /\ Range(attackers) \ Unblocked # {}

\* The toughness of the first j blockers of a list.
PrefixTou(blockers, j, creatures) ==
    SumSeq([k \in 1..j |-> At(creatures, blockers[k]).tou])

\* The longest prefix of a blocker list whose toughness the power pays for.
KilledPrefix(blockers, pow, creatures) ==
    LET fits(j) == PrefixTou(blockers, j, creatures) <= pow
        J == CHOOSE j \in 0..Len(blockers) :
                 fits(j) /\ \A j2 \in (j + 1)..Len(blockers) : ~fits(j2)
    IN {blockers[k] : k \in 1..J}

\* C5: the blockers that die are, for each blocked attacker, the longest prefix
\* of its ordered blocker list whose cumulative toughness is at most the
\* attacker's power; they and no others leave the defender's battlefield.
C5_DeadBlockersArePrefix ==
    JustFought =>
        LET expected ==
                UNION {KilledPrefix(all_blockers[a], At(PreCur.creatures, a).pow,
                                    PreOth.creatures) : a \in DOMAIN all_blockers}
        IN /\ Range(dead_blockers) = expected
           /\ Len(dead_blockers) = Cardinality(expected)
           /\ Oth.creatures = Survivors(PreOth.creatures, expected)

\* Power 2 against the ordered blockers of toughness 1, 1: both die.
C5_Witness ==
    /\ JustFought
    /\ \E a \in DOMAIN all_blockers :
        /\ At(PreCur.creatures, a).pow = 2
        /\ Len(all_blockers[a]) = 2
        /\ \A k \in 1..2 : At(PreOth.creatures, all_blockers[a][k]).tou = 1
        /\ Range(all_blockers[a]) \subseteq Range(dead_blockers)

\* C6: the attackers that die are those with at least one blocker whose
\* blockers' powers sum to at least the attacker's toughness; they and no
\* others leave the active player's battlefield.
C6_AttackerDeath ==
    JustFought =>
        LET expected ==
                {a \in DOMAIN all_blockers :
                    /\ all_blockers[a] # <<>>
                    /\ SumPow(Range(all_blockers[a]), PreOth.creatures)
                           >= At(PreCur.creatures, a).tou}
        IN /\ Range(dead_attackers) = expected
           /\ Len(dead_attackers) = Cardinality(expected)
           /\ Cur.creatures = Survivors(PreCur.creatures, expected)

\* An attacker dies to two blockers of which one survives and one dies, while
\* an unblocked attacker lives.
C6_Witness ==
    /\ JustFought
    /\ Unblocked # {}
    /\ \E a \in Range(dead_attackers) :
        /\ Len(all_blockers[a]) = 2
        /\ all_blockers[a][1] \in Range(dead_blockers)
        /\ all_blockers[a][2] \notin Range(dead_blockers)

\* C7: an accepted block declaration names only untapped, in-range blockers,
\* each once, and only attackers declared this turn.
C7_BlockValidation ==
    pc = "order" =>
        \A k \in 1..Len(blocking_pairs) :
            /\ blocking_pairs[k][1] < Len(Oth.creatures)
            /\ ~At(Oth.creatures, blocking_pairs[k][1]).tapped
            /\ \A j \in 1..(k - 1) : blocking_pairs[j][1] # blocking_pairs[k][1]
            /\ blocking_pairs[k][2] \in Range(attackers)

\* C8: in a turn without declared attackers combat changes no life and kills
\* no creature.
C8_NoAttackersNoCombat ==
    (JustFought /\ attackers = <<>>) =>
        /\ player_states = pre_combat
        /\ dead_attackers = <<>>
        /\ dead_blockers = <<>>

\* A declaration the attack step accepts: in-range, untapped, distinct indices.
LegalAttack(decl, creatures) ==
    \A k \in 1..Len(decl) :
        /\ decl[k] < Len(creatures)
        /\ ~At(creatures, decl[k]).tapped
        /\ \A j \in 1..(k - 1) : decl[j] # decl[k]

\* C9: the attack step taps exactly the declared attackers when the
\* declaration is legal, and otherwise aborts the match there: no winner, and
\* nothing follows the abort.
C9_AttackDeclaration ==
    [][ /\ pc = "attack" =>
            IF LegalAttack(attackers', Cur.creatures)
            THEN /\ pc' = "block"
                 /\ Len(Cur'.creatures) = Len(Cur.creatures)
                 /\ \A k \in 1..Len(Cur.creatures) :
                        Cur'.creatures[k] =
                            [Cur.creatures[k] EXCEPT
                                !.tapped = @ \/ (k - 1) \in Range(attackers')]
                 /\ \A a \in Range(attackers') : At(Cur'.creatures, a).tapped
            ELSE /\ pc' = "panic"
                 /\ winner' = "None"
                 /\ player_states' = player_states
        /\ pc = "panic" => FALSE ]_vars

C9_Witness ==
    /\ pc = "panic"
    /\ panic_msg = "539: No double attacks"
    /\ Len(attackers) = 2
    /\ attackers[1] = attackers[2]
    /\ attackers[1] < Len(Cur.creatures)

\* ord has the keys of arr and, for each key, a permutation of arr's list.
IsReordering(arr, ord) ==
    /\ DOMAIN ord = DOMAIN arr
    /\ \A a \in DOMAIN arr :
        /\ Len(ord[a]) = Len(arr[a])
        /\ \E p \in Permutations(1..Len(arr[a])) :
               \A k \in 1..Len(arr[a]) : ord[a][k] = arr[a][p[k]]

\* C10: the order_blockers step goes on iff the returned ordering has the keys
\* of the proposed assignment and a permutation of each proposed blocker list;
\* any other ordering aborts the match.
C10_OrderValidation ==
    [][ pc = "order" =>
            /\ IsReordering(blocking_arrangement, ordered_blockers') => pc' \in {"main", "over"}
            /\ ~IsReordering(blocking_arrangement, ordered_blockers') =>
                   pc' = "panic" /\ player_states' = player_states ]_vars

\* A double block whose two blockers come back in the other order.
C10_Witness ==
    /\ pc = "main"
    /\ \E a \in DOMAIN ordered_blockers :
        /\ a \in DOMAIN blocking_arrangement
        /\ Len(ordered_blockers[a]) = 2
        /\ ordered_blockers[a] # blocking_arrangement[a]


\* A main-phase decision that meets the contract for the hand and land count it
\* is made with: a land to play if one is played, in-range distinct indices of
\* Creature cards, and costs paid by the lands in play after the land play.
LegalPlays(plays, ps) ==
    /\ plays.land => Contains(ps.hand, Land)
    /\ \A k \in 1..Len(plays.cards) :
        /\ plays.cards[k] < Len(ps.hand)
        /\ At(ps.hand, plays.cards[k]).kind = "Creature"
        /\ \A j \in 1..(k - 1) : plays.cards[j] # plays.cards[k]
    /\ SumSeq([k \in 1..Len(plays.cards) |-> At(ps.hand, plays.cards[k]).cmc])
           <= ps.num_lands + (IF plays.land THEN 1 ELSE 0)

\* The hand positions a successful main phase empties.
PlayedPositions(plays, ps) ==
    Range(plays.cards) \cup (IF plays.land THEN {land_position(ps.hand)} ELSE {})

\* C11: the main phase goes on iff the decision is legal (a land in hand if one
\* is played, in-range distinct indices of Creature cards, total cost at most
\* the lands in play after the land play); then lands_in_play grows by 1 iff a
\* land is played, the named cards and the land leave the hand, and one
\* untapped Creature per named index is appended in the given order; any other
\* decision aborts the match.
C11_MainPhase ==
    [][ pc = "main" =>
            LET plays == main_phase_plays'
                me == current_player_index
                after == player_states'[me]
            IN IF LegalPlays(plays, Cur)
               THEN /\ pc' \in {"discard", "untap"}
                    /\ after.num_lands = Cur.num_lands + (IF plays.land THEN 1 ELSE 0)
                    /\ after.hand = Survivors(Cur.hand, PlayedPositions(plays, Cur))
                    /\ after.creatures =
                           Cur.creatures \o
                           [k \in 1..Len(plays.cards) |->
                               [cmc |-> At(Cur.hand, plays.cards[k]).cmc,
                                pow |-> At(Cur.hand, plays.cards[k]).pow,
                                tou |-> At(Cur.hand, plays.cards[k]).tou,
                                tapped |-> FALSE]]
                    /\ after.deck = Cur.deck /\ after.life = Cur.life
                    /\ player_states'[Other(me)] = Oth
               ELSE pc' = "panic" /\ winner' = "None" ]_vars

\* A land and two creatures played, the creatures named in descending order.
C11_Witness ==
    /\ pc = "untap"
    /\ main_phase_plays.land
    /\ Len(main_phase_plays.cards) = 2
    /\ main_phase_plays.cards[1] > main_phase_plays.cards[2]
    /\ Len(Oth.creatures) = 2
    /\ Oth.creatures[1].pow # Oth.creatures[2].pow


\* A discard decision that meets the contract for a hand: exactly the excess
\* over the hand size, in-range, distinct.
LegalDiscard(indices, hand) ==
    /\ Len(indices) = Len(hand) - HandSize
    /\ \A k \in 1..Len(indices) :
        /\ indices[k] < Len(hand)
        /\ \A j \in 1..(k - 1) : indices[j] # indices[k]

\* C12: the discard decision point follows the main phase iff the active
\* player's hand then holds more than the hand size (7 in the source); a
\* decision of exactly hand.len() - 7 distinct in-range positions removes those
\* cards and leaves exactly 7, any other aborts the match; a turn ends with a
\* hand of at most 7 cards.
C12_Discard ==
    [][ LET me == current_player_index
        IN /\ (pc = "main" /\ pc' # "panic") =>
                /\ pc' \in {"discard", "untap"}
                /\ pc' = "discard" <=> Len(player_states'[me].hand) > HandSize
           /\ pc' = "discard" => pc = "main"
           /\ pc = "discard" =>
                IF LegalDiscard(discard_indices', Cur.hand)
                THEN /\ pc' = "untap"
                     /\ player_states'[me].hand =
                            Survivors(Cur.hand, Range(discard_indices'))
                     /\ Len(player_states'[me].hand) = HandSize
                     /\ player_states' = [player_states EXCEPT
                                             ![me].hand = player_states'[me].hand]
                ELSE pc' = "panic" /\ winner' = "None"
           /\ (pc \in {"main", "discard"} /\ pc' = "untap") =>
                /\ current_player_index' = Other(me)
                /\ Len(player_states'[me].hand) <= HandSize ]_vars

\* A turn that has ended with the discard of the card in the middle of the hand.
C12_Witness ==
    /\ pc = "untap"
    /\ discard_indices = <<1>>
    /\ Len(Oth.hand) = HandSize
    /\ discarded[Other(current_player_index)] = 1


\* A KeepExcept answer that meets the contract after k Mulligan answers.
LegalKeep(remove, k) ==
    /\ Len(remove) = k
    /\ \A j \in 1..Len(remove) :
        /\ remove[j] < HandSize
        /\ \A h \in 1..(j - 1) : remove[h] # remove[j]

\* The mulligan procedure of player me has returned: the next player's begins,
\* or turn 1 does.
ProcedureEnded(me) ==
    IF me = 0
    THEN pc' = "muligan" /\ mul_index' = 1 /\ num_muls' = 0
    ELSE pc' = "untap" /\ num_turn' = 1 /\ current_player_index' = 0

\* C13: after k Mulligan answers a KeepExcept of exactly k distinct indices
\* below the hand size (7) leaves a hand of 7 - k and a library of 53 + k; any
\* other KeepExcept aborts; a Mulligan answer empties the hand into the
\* library, and the 7th ends the procedure with no further draw or question.
C13_Mulligan ==
    [][ pc = "muligan" =>
            LET me == mul_index
                k == num_muls
                answer == perform_muligan'
                after == player_states'[me]
            IN /\ k < HandSize
               /\ Len(player_states[me].deck) = DeckSize
               /\ IF answer.muligan
                  THEN /\ after.hand = <<>>
                       /\ Len(after.deck) = DeckSize
                       /\ IF k + 1 < HandSize
                          THEN pc' = "muligan" /\ mul_index' = me /\ num_muls' = k + 1
                          ELSE ProcedureEnded(me)
                  ELSE IF LegalKeep(answer.remove, k)
                  THEN /\ Len(after.hand) = HandSize - k
                       /\ Len(after.deck) = DeckSize - HandSize + k
                       /\ ProcedureEnded(me)
                  ELSE pc' = "panic" /\ winner' = "None" ]_vars

\* The second player has kept after two mulligans, bottoming two cards.
C13_Witness ==
    /\ pc = "untap"
    /\ num_turn = 1
    /\ ~perform_muligan.muligan
    /\ Len(perform_muligan.remove) = 2
    /\ Len(player_states[1].hand) = HandSize - 2
    /\ Len(player_states[1].deck) = DeckSize - HandSize + 2


Terminal == pc \in {"over", "panic"}

\* C14: every match eventually ends, with a winner (decking or life loss) or
\* with an abort; until then each draw step that is not skipped takes a card
\* from the active player's library or ends the match, and nothing puts a card
\* back once the mulligans are over.
C14_Termination ==
    /\ <>Terminal
    /\ [][ /\ (pc = "untap" /\ ~(num_turn = 1 /\ current_player_index = 0)) =>
                \/ pc' = "over" /\ winner' # "None"
                \/ Len(player_states'[current_player_index].deck) = Len(Cur.deck) - 1
           /\ pc # "muligan" =>
                \A i \in 0..1 : Len(player_states'[i].deck) <= Len(player_states[i].deck)
           /\ pc' = "over" <=> winner' # "None"
           /\ Terminal => FALSE ]_vars

\* The first player is decked: the match has run for as long as it can.
C14_Witness ==
    /\ pc = "over"
    /\ winner = "Player2"
    /\ current_player_index = 0
    /\ Cur.deck = <<>>
    /\ Oth.deck = <<>>


\* C15: a match without mulligans, casts and attacks ends by decking; the
\* decked player is the second player, in the turn after its library of
\* 60 - 7 cards has been drawn one card a turn, and the first player wins.
C15_PassiveDecking ==
    /\ <>(pc = "over")
    /\ [](pc = "over" =>
            /\ winner = "Player1"
            /\ current_player_index = 1
            /\ num_turn = (DeckSize - HandSize) + 1
            /\ player_states[1].deck = <<>>
            /\ Len(player_states[1].hand) + player_states[1].num_lands + discarded[1]
                   = HandSize + (DeckSize - HandSize)
            /\ \A i \in 0..1 : player_states[i].life = StartLife)
    /\ [][ (pc = "untap" /\ current_player_index = 1 /\ pc' # "over") =>
               /\ Len(player_states'[1].deck) = Len(player_states[1].deck) - 1
               /\ Len(player_states[1].deck) = (DeckSize - HandSize) - (num_turn - 1)
         ]_vars

\* The second player is decked after both players have played a land every
\* turn.
C15_Witness ==
    /\ pc = "over"
    /\ winner = "Player1"
    /\ perform_muligan = NoChoice
    /\ player_states[0].creatures = <<>> /\ player_states[1].creatures = <<>>
    /\ player_states[0].num_lands = 2
    /\ died = [i \in 0..1 |-> 0]


\* The number of copies of card c in a Vec of cards.
Copies(v, c) == Cardinality({k \in 1..Len(v) : v[k] = c})

\* C16: both players finish their mulligans before turn 1, player 0 first with
\* is_first true, then player 1 with is_first false; the draw step is skipped
\* for player 0 on turn 1, a turn that occurs once, right after the mulligans;
\* in every other turn the active player untaps and then either is decked or
\* moves the top card of the library to the hand.
C16_DrawStep ==
    [][ LET me == current_player_index
            after == player_states'[me]
        IN /\ pc = "muligan" =>
                /\ num_turn = 1 /\ me = 0
                /\ is_first <=> mul_index = me
                /\ mul_index' >= mul_index
                /\ pc' = "untap" =>
                      mul_index = 1 /\ num_turn' = 1 /\ current_player_index' = 0
           /\ pc' = "muligan" => pc = "muligan"
           /\ (pc # "muligan" /\ pc' = "untap") =>
                ~(num_turn' = 1 /\ current_player_index' = 0)
           /\ pc = "untap" =>
                /\ \A k \in 1..Len(after.creatures) : ~after.creatures[k].tapped
                /\ IF num_turn = 1 /\ me = 0
                   THEN /\ pc' = "attack"
                        /\ after.deck = Cur.deck
                        /\ Len(after.hand) = Len(Cur.hand)
                        /\ \A c \in Range(Cur.hand) :
                               Copies(after.hand, c) = Copies(Cur.hand, c)
                   ELSE IF Cur.deck = <<>>
                   THEN /\ pc' = "over"
                        /\ after.deck = <<>> /\ after.hand = Cur.hand
                   ELSE /\ pc' = "attack"
                        /\ Len(after.deck) = Len(Cur.deck) - 1
                        /\ Len(after.hand) = Len(Cur.hand) + 1
                        /\ after.deck = SubSeq(Cur.deck, 1, Len(Cur.deck) - 1)
                        /\ \A c \in Range(after.hand) :
                               Copies(after.hand, c) =
                                   Copies(Cur.hand, c)
                                   + (IF c = Cur.deck[Len(Cur.deck)] THEN 1 ELSE 0)
      ]_vars

\* Turn 1 of the second player: it has drawn, the first player never has.
C16_Witness ==
    /\ pc = "attack"
    /\ num_turn = 1
    /\ current_player_index = 1
    /\ Len(player_states[0].deck) = DeckSize - HandSize
    /\ Len(player_states[0].hand) + player_states[0].num_lands
           + Len(player_states[0].creatures) = HandSize
    /\ Len(player_states[1].deck) = DeckSize - HandSize - 1
    /\ Len(player_states[1].hand) = HandSize + 1


\* The positions that may follow a position of play, in the order of the loop
\* body: untap and draw, attack, block, order_blockers and damage, main_phase,
\* discard.
FollowedBy(p) ==
    CASE p = "muligan" -> {"muligan", "untap", "panic"}
      [] p = "untap" -> {"attack", "over"}
      [] p = "attack" -> {"block", "panic"}
      [] p = "block" -> {"order", "panic"}
      [] p = "order" -> {"main", "over", "panic"}
      [] p = "main" -> {"discard", "untap", "panic"}
      [] p = "discard" -> {"untap", "panic"}
      [] OTHER -> {}

\* C17: the match starts with player 0 active and turn counter 1; the steps of
\* a turn follow in the fixed order untap/draw, attack, block, order_blockers
\* with damage, main_phase, discard; only the end of a turn changes the active
\* player, always to the other player, and the counter grows by exactly 1 when
\* the active player returns to player 0 and never otherwise.
C17_TurnSequence ==
    /\ num_turn = 1 /\ current_player_index = 0
    /\ [][ /\ pc' \in FollowedBy(pc)
           /\ IF pc \in {"main", "discard"} /\ pc' = "untap"
              THEN /\ current_player_index' = 1 - current_player_index
                   /\ num_turn' = IF current_player_index = 1
                                  THEN num_turn + 1 ELSE num_turn
              ELSE /\ current_player_index' = current_player_index
                   /\ num_turn' = num_turn
         ]_vars

\* The second player discards in its second turn.
C17_Witness ==
    /\ pc = "discard"
    /\ num_turn = 2
    /\ current_player_index = 1


AllUntapped(creatures) == \A k \in 1..Len(creatures) : ~creatures[k].tapped

\* C18: a creature's tapped flag becomes true only when it is declared as an
\* attacker and false only at its owner's untap step, so an attacker is still
\* tapped through the opponent's next turn, where naming it as a blocker
\* aborts the match; blocking taps nothing, combat only removes creatures, and
\* a cast creature arrives untapped.
C18_TappedFlag ==
    [][ LET me == current_player_index
            you == Other(current_player_index)
            mine == player_states'[me].creatures
            yours == player_states'[you].creatures
        IN CASE pc = "untap" ->
                  /\ Len(mine) = Len(Cur.creatures)
                  /\ \A k \in 1..Len(mine) :
                         mine[k] = [Cur.creatures[k] EXCEPT !.tapped = FALSE]
                  /\ yours = Oth.creatures
             [] pc = "attack" ->
                  /\ Len(mine) = Len(Cur.creatures)
                  /\ \A k \in 1..Len(mine) :
                         mine[k].tapped =
                             (Cur.creatures[k].tapped
                              \/ (pc' = "block" /\ (k - 1) \in Range(attackers')))
                  /\ yours = Oth.creatures
             [] pc = "block" ->
                  /\ mine = Cur.creatures /\ yours = Oth.creatures
                  /\ (\E k \in 1..Len(blocking_pairs') :
                         /\ blocking_pairs'[k][1] < Len(Oth.creatures)
                         /\ At(Oth.creatures, blocking_pairs'[k][1]).tapped)
                     => pc' = "panic"
             [] pc = "order" ->
                  /\ mine = Survivors(Cur.creatures, Range(dead_attackers'))
                  /\ yours = Survivors(Oth.creatures, Range(dead_blockers'))
             [] pc = "main" ->
                  /\ SubSeq(mine, 1, Len(Cur.creatures)) = Cur.creatures
                  /\ AllUntapped(SubSeq(mine, Len(Cur.creatures) + 1, Len(mine)))
                  /\ yours = Oth.creatures
             [] OTHER -> mine = Cur.creatures /\ yours = Oth.creatures
      ]_vars

\* A creature that attacked in its owner's last turn is named as a blocker.
C18_Witness ==
    /\ pc = "panic"
    /\ panic_msg = "556: Tapped creatures can't block"
    /\ \E k \in 1..Len(blocking_pairs) :
        /\ blocking_pairs[k][1] < Len(Oth.creatures)
        /\ At(Oth.creatures, blocking_pairs[k][1]).tapped


\* The cards of a deck that were in the library before the bottoming, in deck
\* order.
LibraryLeft(deck) == SelectSeq(deck, LAMBDA c : c \in Range(Library0))

\* The cards drawn since the bottoming, first drawn first.
DrawnSince(ps) == SubSeq(ps.hand, HandSize - num_muls + 1, Len(ps.hand))

\* C19: after the bottoming the cards that were in the library are still in
\* their order and are drawn, in the order they would have been drawn in,
\* before any bottomed card.
C19_Bottoming ==
    pc = "drawing" =>
        LET ps == player_states[0]
            n == Len(LibraryLeft(ps.deck))
        IN /\ LibraryLeft(ps.deck) = SubSeq(Library0, 1, n)
           /\ SubSeq(ps.deck, Len(ps.deck) - n + 1, Len(ps.deck)) = LibraryLeft(ps.deck)
           /\ Len(ps.deck) + Len(DrawnSince(ps)) = LibrarySize + num_muls
           /\ \A j \in 1..Len(DrawnSince(ps)) :
                 IF j <= LibrarySize
                 THEN DrawnSince(ps)[j] = Library0[LibrarySize + 1 - j]
                 ELSE DrawnSince(ps)[j] \in HandCards

\* Two cards bottomed and the whole deck drawn: the library first.
C19_Witness ==
    /\ pc = "drawing"
    /\ num_muls = 2
    /\ perform_muligan.remove = <<2, 0>>
    /\ player_states[0].deck = <<>>
    /\ Len(DrawnSince(player_states[0])) = LibrarySize + 2
    /\ DrawnSince(player_states[0])[1] = Library0[LibrarySize]
    /\ DrawnSince(player_states[0])[LibrarySize + 1] \in HandCards


\* The damage loop run for the single attacker a of the map allb.
Alone(a, allb, cur, oth) ==
    Damage(<<a>>, allb, cur, oth,
           [life |-> 0, dead_attackers |-> <<>>, dead_blockers |-> <<>>])

RECURSIVE SumAlone(_, _, _, _)
SumAlone(S, allb, cur, oth) ==
    IF S = {} THEN 0
    ELSE LET a == CHOOSE x \in S : TRUE
         IN Alone(a, allb, cur, oth).life + SumAlone(S \ {a}, allb, cur, oth)

\* C20: for the battlefields and the ordered assignment of a combat, every
\* order of processing the attackers gives the defender's life, the set of
\* dead attackers, the set of dead blockers and the two battlefields that the
\* engine produced, and these are the sum and the unions of what the loop
\* gives for each attacker alone with its own blockers.
C20_CombatDeterminism ==
    [][ (pc = "order" /\ pc' # "panic") =>
            LET allb == all_blockers'
                K == DOMAIN allb
            IN /\ \A iter \in IterationOrders(K) :
                    LET r == Damage(iter, allb, Cur, Oth,
                                    [life |-> Oth.life, dead_attackers |-> <<>>,
                                     dead_blockers |-> <<>>])
                    IN /\ r.life = Oth'.life
                       /\ Range(r.dead_attackers) = Range(dead_attackers')
                       /\ Range(r.dead_blockers) = Range(dead_blockers')
                       /\ die(Cur, r.dead_attackers).ps.creatures = Cur'.creatures
                       /\ die(Oth, r.dead_blockers).ps.creatures = Oth'.creatures
               /\ Oth'.life = Oth.life + SumAlone(K, allb, Cur, Oth)
               /\ Range(dead_attackers') =
                      UNION {Range(Alone(a, allb, Cur, Oth).dead_attackers) : a \in K}
               /\ Range(dead_blockers') =
                      UNION {Range(Alone(a, allb, Cur, Oth).dead_blockers) : a \in K}
               /\ current_player_index' = current_player_index ]_vars

\* Two blocked attackers both died, the one of higher index processed first.
C20_Witness ==
    /\ JustFought
    /\ Cardinality(DOMAIN all_blockers) = 2
    /\ Len(dead_attackers) = 2
    /\ dead_attackers[1] > dead_attackers[2]
    /\ Len(dead_blockers) = 2


\* The cards a player holds in any zone the engine keeps.
InZones(ps) == Len(ps.deck) + Len(ps.hand) + Len(ps.creatures) + ps.num_lands

\* C21: with lands_in_play counted, each player's cards in library, hand,
\* battlefield and lands plus its discarded cards and dead creatures are the
\* deck size (60) in every state; no step adds a card to a player's zones, a
\* step removes exactly the cards it discards or kills, and lands_in_play
\* grows only by a land play of the main phase that takes one Land from the
\* hand.
C21_Conservation ==
    /\ [](\A i \in 0..1 : InZones(player_states[i]) + discarded[i] + died[i] = DeckSize)
    /\ [][ \A i \in 0..1 :
              LET before == player_states[i]
                  after == player_states'[i]
              IN /\ InZones(after) <= InZones(before)
                 /\ InZones(before) - InZones(after) =
                        (discarded'[i] - discarded[i]) + (died'[i] - died[i])
                 /\ discarded'[i] >= discarded[i] /\ died'[i] >= died[i]
                 /\ after.num_lands # before.num_lands =>
                        /\ pc = "main" /\ i = current_player_index
                        /\ main_phase_plays'.land
                        /\ after.num_lands = before.num_lands + 1
                        /\ Copies(after.hand, Land) = Copies(before.hand, Land) - 1
                        /\ Copies(after.deck, Land) = Copies(before.deck, Land)
         ]_vars

\* The first player has both its lands in play and a creature, the second has
\* discarded.
C21_Witness ==
    /\ player_states[0].num_lands = 2
    /\ player_states[0].creatures # <<>>
    /\ discarded[1] > 0


\* decl names some creature index more than once.
NamesTwice(decl) ==
    \E j, k \in 1..Len(decl) : j < k /\ decl[j] = decl[k]

\* C22: at the attack decision point every creature of the active player is
\* untapped, so the "No double attacks" abort happens only on a declaration
\* that names one in-range creature index more than once; and the step that
\* runs a player's untap leaves all of that player's creatures untapped.
C22_UntappedAtAttack ==
    /\ [](/\ pc = "attack" => AllUntapped(Cur.creatures)
          /\ panic_msg = "539: No double attacks" =>
                /\ NamesTwice(attackers)
                /\ AllUntapped(Cur.creatures)
                /\ \E j, k \in 1..Len(attackers) :
                       /\ j < k /\ attackers[j] = attackers[k]
                       /\ attackers[j] < Len(Cur.creatures))
    /\ [][ /\ pc = "untap" => AllUntapped(Cur'.creatures)
           /\ (pc = "attack" /\ ~NamesTwice(attackers')) =>
                  panic_msg' # "539: No double attacks" ]_vars

\* The first player, whose earlier attack cost the opponent life, is at its
\* attack decision again and still has a creature.
C22_Witness ==
    /\ pc = "attack"
    /\ current_player_index = 0
    /\ Cur.creatures # <<>>
    /\ Oth.life < StartLife


\* No land of the hand comes before a non-land card.
LandsLast(hand) ==
    \A j, k \in 1..Len(hand) : (j < k /\ hand[j] = Land) => hand[k] = Land

\* C23: from the attack decision to the main-phase decision of a turn the
\* active player's hand has all non-land cards before all lands, so the
\* "Creature after land" abort never happens, and the land play of the main
\* phase leaves every creature card of the hand at the index it had.
C23_HandOrder ==
    /\ pc \in {"attack", "block", "order", "main"} => LandsLast(Cur.hand)
    /\ panic_msg # "322: Creature after land"
    /\ (pc = "main" /\ Contains(Cur.hand, Land)) =>
           LET after == PlayLand(Cur).hand
           IN /\ Len(after) = Len(Cur.hand) - 1
              /\ land_position(Cur.hand) = Len(SelectSeq(Cur.hand, LAMBDA c : c # Land))
              /\ \A k \in 1..Len(Cur.hand) :
                     Cur.hand[k] # Land => (k <= Len(after) /\ after[k] = Cur.hand[k])

\* A turn after the first in which a land was played and a creature cast from
\* a hand that had been drawn to, with the match going on.
C23_Witness ==
    /\ pc = "untap"
    /\ num_turn >= 3
    /\ main_phase_plays.land
    /\ main_phase_plays.cards # <<>>
    /\ Oth.num_lands = 2


\* dead names distinct indices of creatures.
DistinctInRange(dead, creatures) ==
    /\ \A k \in 1..Len(dead) : dead[k] \in 0..(Len(creatures) - 1)
    /\ \A j, k \in 1..Len(dead) : j # k => dead[j] # dead[k]

\* C24: after decisions that pass the attack, block and ordering validation
\* the lists of dead attackers and dead blockers hold distinct in-range
\* creature indices, the "Correct number of creatures die" assert never fails,
\* and each battlefield loses exactly the listed creatures, the others keeping
\* their order.
C24_DeathLists ==
    /\ [](/\ panic_msg # "387: Correct number of creatures die"
          /\ JustFought =>
                /\ DistinctInRange(dead_attackers, PreCur.creatures)
                /\ DistinctInRange(dead_blockers, PreOth.creatures)
                /\ Cur.creatures = Survivors(PreCur.creatures, Range(dead_attackers))
                /\ Oth.creatures = Survivors(PreOth.creatures, Range(dead_blockers))
                /\ Len(Cur.creatures) = Len(PreCur.creatures) - Len(dead_attackers)
                /\ Len(Oth.creatures) = Len(PreOth.creatures) - Len(dead_blockers))
    /\ [][ (pc = "order" /\ OrderingAccepted(blocking_arrangement, ordered_blockers'))
              => (pc' \in {"main", "over"} /\ pre_combat' = player_states) ]_vars

\* On each side the first of two creatures dies and the second, of another
\* kind, stays.
C24_Witness ==
    /\ JustFought
    /\ dead_attackers = <<0>> /\ dead_blockers = <<0>>
    /\ Len(PreCur.creatures) = 2 /\ Len(PreOth.creatures) = 2
    /\ PreCur.creatures[1] # PreCur.creatures[2]
    /\ PreOth.creatures[1] # PreOth.creatures[2]


\* The steps of a turn, from its untap to its discard.
InTurn == pc \in {"untap", "attack", "block", "order", "main", "discard"}

\* C25: both players start at the starting life (20); no step raises a life,
\* and a life changes only in the combat damage step and only for the
\* non-active player; that step leaves the active player's life, library and
\* hand as they are, and no step of a turn changes the non-active player's
\* library, hand or lands_in_play; so every turn starts with both players at
\* life > 0.
C25_LifeFrame ==
    /\ \A i \in 0..1 : player_states[i].life = StartLife
    /\ [][ LET me == current_player_index
               you == Other(current_player_index)
           IN /\ \A i \in 0..1 :
                    /\ player_states'[i].life <= player_states[i].life
                    /\ player_states'[i].life # player_states[i].life =>
                           (pc = "order" /\ i = you)
              /\ pc = "order" =>
                    /\ player_states'[me].life = Cur.life
                    /\ player_states'[me].deck = Cur.deck
                    /\ player_states'[me].hand = Cur.hand
              /\ InTurn =>
                    /\ player_states'[you].deck = Oth.deck
                    /\ player_states'[you].hand = Oth.hand
                    /\ player_states'[you].num_lands = Oth.num_lands ]_vars
    /\ [](pc = "untap" => \A i \in 0..1 : player_states[i].life > 0)

\* A turn starts for a player who lost life in the opponent's turn and still
\* has some.
C25_Witness ==
    /\ pc = "untap"
    /\ Cur.life < StartLife
    /\ Cur.life > 0
    /\ Oth.creatures # <<>>
    /\ dead_attackers = <<>> /\ dead_blockers = <<>>

=============================================================================
